---------------------------- MODULE Spec2Model ----------------------------
(***************************************************************************)
(* Model of flotation_app.py: the lookup-table interpolation, the          *)
(* performance model, the target-zone calculation and the Streamlit        *)
(* session (number inputs, "New Scenario", "Reset All Parameters").        *)
(*                                                                         *)
(* Numbers.  Python floats are modelled in decimal fixed point, every      *)
(* arithmetic operation rounding its result to the nearest unit:           *)
(*   - metric values, weights, factors and results: thousandths            *)
(*     (recovery 97.2 is 97200, the multiplier 0.98 is 980);               *)
(*   - pH, mn_grade and zn_feed_grade, which the widgets show with one     *)
(*     decimal: tenths (pH 8.5 is 85, 0.8 % Mn is 8, 13.0 % Zn is 130);    *)
(*   - collector, air_rate, frother and luproset are Python ints.          *)
(***************************************************************************)
EXTENDS Integers, Sequences, FiniteSets, TLC

VARIABLES
    collector, air_rate, frother, ph, luproset, mn_grade, zn_feed_grade,
    recovery, grade, carbon, target_recovery, target_grade,
    pressed, lookup_table, value, result, pc

vars == <<collector, air_rate, frother, ph, luproset, mn_grade, zn_feed_grade,
          recovery, grade, carbon, target_recovery, target_grade,
          pressed, lookup_table, value, result, pc>>

params == <<collector, air_rate, frother, ph, luproset, mn_grade, zn_feed_grade>>
outputs == <<recovery, grade, carbon, target_recovery, target_grade>>
frame == <<lookup_table, value, result>>

---------------------------------------------------------------------------
\* Arithmetic

\* Python's max and min of two numbers.
Max(a, b) == IF a >= b THEN a ELSE b

Min(a, b) == IF a <= b THEN a ELSE b

\* n / d rounded to the nearest integer (d > 0).
RoundDiv(n, d) == (2 * n + d) \div (2 * d)

\* Product of two numbers in thousandths, in thousandths.
Mul(a, b) == RoundDiv(a * b, 1000)

\* Quotient a / b as a number in thousandths (a, b in the same unit, b > 0).
Div(a, b) == RoundDiv(a * 1000, b)

\* Smallest / largest element of a finite non-empty set of integers.
SetMin(S) == CHOOSE x \in S : \A y \in S : x <= y

SetMax(S) == CHOOSE x \in S : \A y \in S : x >= y

---------------------------------------------------------------------------
\* Lookup tables: a dict is a function from its keys to EffectVector records.

COLLECTOR_LOOKUP ==
    (200 :> [recovery |-> 15000, grade |-> 55000]) @@
    (400 :> [recovery |-> 46000, grade |-> 52500]) @@
    (650 :> [recovery |-> 70000, grade |-> 50000]) @@
    (900 :> [recovery |-> 85000, grade |-> 47500]) @@
    (1100 :> [recovery |-> 93000, grade |-> 45000]) @@
    (1500 :> [recovery |-> 97200, grade |-> 40000])

AIR_RATE_LOOKUP ==
    (500 :> [recovery |-> 30000, grade |-> 58000]) @@
    (1500 :> [recovery |-> 92000, grade |-> 22000])

FROTHER_LOOKUP ==
    (0 :> [recovery |-> 60000, grade |-> 47000]) @@
    (25 :> [recovery |-> 80000, grade |-> 52000]) @@
    (50 :> [recovery |-> 86500, grade |-> 54000]) @@
    (75 :> [recovery |-> 80000, grade |-> 50000]) @@
    (100 :> [recovery |-> 66000, grade |-> 45000])

\* Keys in tenths of a pH unit.
PH_LOOKUP ==
    (85 :> [recovery_multiplier |-> 1000, grade_bonus |-> 0]) @@
    (90 :> [recovery_multiplier |-> 1000, grade_bonus |-> 3900]) @@
    (95 :> [recovery_multiplier |-> 1000, grade_bonus |-> 4500]) @@
    (100 :> [recovery_multiplier |-> 980, grade_bonus |-> 5000]) @@
    (105 :> [recovery_multiplier |-> 950, grade_bonus |-> 5500]) @@
    (110 :> [recovery_multiplier |-> 900, grade_bonus |-> 7500]) @@
    (120 :> [recovery_multiplier |-> 400, grade_bonus |-> 10500])

---------------------------------------------------------------------------
\* interpolate_lookup

\* sorted(lookup_table.keys()): the keys in ascending order.
RECURSIVE sorted(_)
sorted(S) ==
    IF S = {} THEN <<>>
    ELSE LET m == SetMin(S) IN <<m>> \o sorted(S \ {m})

\* surrounding_keys with the comparisons written keys[i] < value < keys[i+1].
surrounding_keys_strict(v, keys) ==
    LET hits == {i \in 1..(Len(keys) - 1) : keys[i] < v /\ v < keys[i + 1]}
    IN IF hits = {} THEN 0 ELSE SetMin(hits)

\* The for loop with its break: the first i with keys[i] <= value <= keys[i+1],
\* or 0 when the loop ends without binding lower_key and upper_key.
surrounding_keys(v, keys) ==
    LET hits == {i \in 1..(Len(keys) - 1) : keys[i] <= v /\ v <= keys[i + 1]}
    IN IF hits = {} THEN 0 ELSE SetMin(hits)

\* interpolation_weight dividing by upper_key instead of the key distance.
weight_over_upper_key(v, lower_key, upper_key) ==
    Div(v - lower_key, upper_key)

\* weight = (value - lower_key) / (upper_key - lower_key)
interpolation_weight(v, lower_key, upper_key) ==
    Div(v - lower_key, upper_key - lower_key)

\* interpolate_param adding the two values where it should subtract them.
interpolate_param_sum(lower_val, upper_val, weight) ==
    lower_val + Mul(weight, upper_val + lower_val)

\* result[param] = lower_val + weight * (upper_val - lower_val)
interpolate_param(lower_val, upper_val, weight) ==
    lower_val + Mul(weight, upper_val - lower_val)

\* What reading the unbound lower_key raises.
UnboundLocalError == [error |-> "UnboundLocalError"]

\* The body of interpolate_lookup once keys is bound.
interpolate_sorted(v, table, keys) ==
    IF v <= keys[1] THEN table[keys[1]]
    ELSE IF v >= keys[Len(keys)] THEN table[keys[Len(keys)]]
    ELSE LET i == surrounding_keys(v, keys)
         IN IF i = 0 THEN UnboundLocalError
            ELSE LET lower_key == keys[i]
                     upper_key == keys[i + 1]
                     weight == interpolation_weight(v, lower_key, upper_key)
                 IN [param \in DOMAIN table[lower_key] |->
                       interpolate_param(table[lower_key][param],
                                         table[upper_key][param], weight)]

interpolate_lookup(v, table) == interpolate_sorted(v, table, sorted(DOMAIN table))

---------------------------------------------------------------------------
\* calculate_performance

\* np.exp(k * 0.02) in thousandths for k = 20, 19, ..., -120 (entry 1 is
\* exp(0.4), entry 21 is exp(0) and entry 141 is exp(-2.4)).
EXP_TABLE ==
    << 1492, 1462, 1433, 1405, 1377, 1350, 1323, 1297, 1271, 1246, 1221, 1197,
       1174, 1150, 1127, 1105, 1083, 1062, 1041, 1020, 1000, 980, 961, 942,
       923, 905, 887, 869, 852, 835, 819, 803, 787, 771, 756, 741,
       726, 712, 698, 684, 670, 657, 644, 631, 619, 607, 595, 583,
       571, 560, 549, 538, 527, 517, 507, 497, 487, 477, 468, 458,
       449, 440, 432, 423, 415, 407, 399, 391, 383, 375, 368, 361,
       353, 346, 340, 333, 326, 320, 313, 307, 301, 295, 289, 284,
       278, 273, 267, 262, 257, 252, 247, 242, 237, 232, 228, 223,
       219, 214, 210, 206, 202, 198, 194, 190, 186, 183, 179, 176,
       172, 169, 165, 162, 159, 156, 153, 150, 147, 144, 141, 138,
       135, 133, 130, 127, 125, 122, 120, 118, 115, 113, 111, 109,
       106, 104, 102, 100, 98, 96, 94, 93, 91 >>

\* np.exp(x) for x in thousandths, a multiple of 0.02 in [-2.4, 0.4].
np_exp(x) == EXP_TABLE[21 - (x \div 20)]

\* The weights of collector, air-rate and frother recovery and of the
\* constant baseline in base_recovery.
RECOVERY_WEIGHTS == <<400, 250, 150, 250>>

\* The constant baseline term of base_recovery (88.0).
BASELINE_RECOVERY == 88000

\* The four terms of the base-recovery sum.
recovery_terms(collector_metrics, air_metrics, frother_metrics) ==
    << collector_metrics.recovery, air_metrics.recovery,
       frother_metrics.recovery, BASELINE_RECOVERY >>

\* The weighted sum inside the parentheses of base_recovery.
weighted_recovery(terms) ==
    Mul(terms[1], RECOVERY_WEIGHTS[1]) + Mul(terms[2], RECOVERY_WEIGHTS[2]) +
    Mul(terms[3], RECOVERY_WEIGHTS[3]) + Mul(terms[4], RECOVERY_WEIGHTS[4])

\* grade_recovery_factor = 0.7 + ((zn_feed_grade - 2.0) / (15.0 - 2.0)) * 0.4
grade_recovery_factor(zn) == 700 + Mul(Div(zn - 20, 150 - 20), 400)

\* raw_recovery with luproset added to recovery instead of subtracted.
raw_recovery_plus_luproset(collector_metrics, air_metrics, frother_metrics, ph_metrics, l, zn) ==
    LET base_recovery ==
            Mul(weighted_recovery(recovery_terms(collector_metrics, air_metrics,
                                                 frother_metrics)),
                grade_recovery_factor(zn))
    IN Mul(base_recovery, ph_metrics.recovery_multiplier) + Mul(l * 1000, 15)

\* recovery before the constraints: base recovery, pH multiplier, luproset.
raw_recovery(collector_metrics, air_metrics, frother_metrics, ph_metrics, l, zn) ==
    LET base_recovery ==
            Mul(weighted_recovery(recovery_terms(collector_metrics, air_metrics,
                                                 frother_metrics)),
                grade_recovery_factor(zn))
    IN Mul(base_recovery, ph_metrics.recovery_multiplier) - Mul(l * 1000, 15)

\* grade before the constraints.
raw_grade(collector_metrics, air_metrics, frother_metrics, ph_metrics, mn, zn) ==
    LET feed_grade_bonus == Mul((zn - 80) * 100, 300)
        base_grade == Mul(collector_metrics.grade, 450) +
                      Mul(air_metrics.grade, 300) +
                      Mul(frother_metrics.grade, 150) +
                      Mul(50000, 100)
    IN base_grade + ph_metrics.grade_bonus - (mn * 100 * 3) + feed_grade_bonus

\* carbon = 2.0 * np.exp(-luproset * 0.02), before the constraint.
raw_carbon(l) == Mul(2000, np_exp(Mul(-(l * 1000), 20)))

\* constrain_recovery without the lower constraint.
constrain_recovery_no_floor(r) == Min(100000, r)

\* The constraints: max(0, min(100, recovery)), max(20, min(65, grade)),
\* max(0.5, carbon).
constrain_recovery(r) == Max(0, Min(100000, r))

constrain_grade(g) == Max(20000, Min(65000, g))

constrain_carbon(cb) == Max(500, cb)

\* calculate_performance once the four lookups are done.
performance_from(collector_metrics, air_metrics, frother_metrics, ph_metrics, l, mn, zn) ==
    [recovery |-> constrain_recovery(
                      raw_recovery(collector_metrics, air_metrics,
                                   frother_metrics, ph_metrics, l, zn)),
     grade |-> constrain_grade(
                   raw_grade(collector_metrics, air_metrics,
                             frother_metrics, ph_metrics, mn, zn)),
     carbon |-> constrain_carbon(raw_carbon(l))]

calculate_performance(c, a, f, p, l, mn, zn) ==
    performance_from(interpolate_lookup(c, COLLECTOR_LOOKUP),
                     interpolate_lookup(a, AIR_RATE_LOOKUP),
                     interpolate_lookup(f, FROTHER_LOOKUP),
                     interpolate_lookup(p, PH_LOOKUP), l, mn, zn)

---------------------------------------------------------------------------
\* calculate_targets

\* best_possible_grade with a manganese coefficient of 2.
best_possible_grade_coeff2(mn) == Min(65000, 60000 - (mn * 100 * 2))

best_possible_grade(mn) == Min(65000, 60000 - (mn * 100 * 3))

calculate_targets(mn) ==
    [target_recovery |-> 76000,
     target_grade |-> Mul(best_possible_grade(mn), 800)]

---------------------------------------------------------------------------
\* The Streamlit script

\* A variable no statement has assigned yet.
None == "None"

\* The number_input ranges (min_value, max_value); floats in tenths.
MN_GRADE_RANGE == 1..10

COLLECTOR_RANGE == 200..1500

AIR_RATE_RANGE == 500..1500

FROTHER_RANGE == 0..100

PH_RANGE == 85..120

LUPROSET_RANGE == 0..100

\* round(random.uniform(lo, hi), 1): every one-decimal value from lo to hi.
rounded_uniform(lo, hi) == lo..hi

\* mn_scenario_draws with the draw starting at 0.0.
mn_draws_from_zero == rounded_uniform(0, 10)

zn_scenario_draws == rounded_uniform(80, 130)

mn_scenario_draws == rounded_uniform(2, 10)

\* The session state the script sets when a key is not in it yet.
SessionDefaults ==
    /\ zn_feed_grade = 80
    /\ mn_grade = 8
    /\ collector = 200
    /\ air_rate = 500
    /\ frother = 0
    /\ ph = 85
    /\ luproset = 0

\* One run of the script body below the widgets with the given widget values:
\* calculate_performance, calculate_targets and the metrics they feed.  The
\* frame variables keep the last interpolate_lookup call of the run (pH).
ScriptRun(c, a, f, p, l, mn, zn) ==
    LET perf == calculate_performance(c, a, f, p, l, mn, zn)
        targets == calculate_targets(mn)
    IN /\ recovery' = perf.recovery
       /\ grade' = perf.grade
       /\ carbon' = perf.carbon
       /\ target_recovery' = targets.target_recovery
       /\ target_grade' = targets.target_grade
       /\ lookup_table' = PH_LOOKUP
       /\ value' = p
       /\ result' = interpolate_lookup(p, PH_LOOKUP)

\* The values the first run of a fresh session displays.
FirstRun ==
    LET perf == calculate_performance(200, 500, 0, 85, 0, 8, 80)
        targets == calculate_targets(8)
    IN /\ recovery = perf.recovery
       /\ grade = perf.grade
       /\ carbon = perf.carbon
       /\ target_recovery = targets.target_recovery
       /\ target_grade = targets.target_grade
       /\ lookup_table = PH_LOOKUP
       /\ value = 85
       /\ result = interpolate_lookup(85, PH_LOOKUP)

\* Values typed into the number inputs and feed grades drawn by a scenario
\* that the session explores.
CollectorTyped == {200, 1125}

AirRateTyped == {500, 1500}

FrotherTyped == {0, 50}

PhTyped == {85, 97}

LuprosetTyped == {0, 70}

MnGradeTyped == {1, 5, 10}

ZnSamples == {75, 80, 104, 130, 135}

Init ==
    /\ SessionDefaults
    /\ FirstRun
    /\ pressed = "none"
    /\ pc = "script_done"

\* The "New Scenario" button: randomize the feed, reset the controls, rerun.
NewScenario ==
    \E zn \in zn_scenario_draws \cap ZnSamples, mn \in mn_scenario_draws :
        /\ zn_feed_grade' = zn
        /\ mn_grade' = mn
        /\ collector' = 200
        /\ air_rate' = 500
        /\ frother' = 0
        /\ ph' = 85
        /\ luproset' = 0
        /\ pressed' = "new_scenario"
        /\ ScriptRun(200, 500, 0, 85, 0, mn, zn)
        /\ UNCHANGED pc

\* A number input changed by the user: the widget stores the new value under
\* its key and the script reruns.
SetMnGrade ==
    \E v \in (MN_GRADE_RANGE \cap MnGradeTyped) \ {mn_grade} :
        /\ mn_grade' = v
        /\ pressed' = "none"
        /\ ScriptRun(collector, air_rate, frother, ph, luproset, v, zn_feed_grade)
        /\ UNCHANGED <<collector, air_rate, frother, ph, luproset, zn_feed_grade, pc>>

SetCollector ==
    \E v \in (COLLECTOR_RANGE \cap CollectorTyped) \ {collector} :
        /\ collector' = v
        /\ pressed' = "none"
        /\ ScriptRun(v, air_rate, frother, ph, luproset, mn_grade, zn_feed_grade)
        /\ UNCHANGED <<air_rate, frother, ph, luproset, mn_grade, zn_feed_grade, pc>>

SetAirRate ==
    \E v \in (AIR_RATE_RANGE \cap AirRateTyped) \ {air_rate} :
        /\ air_rate' = v
        /\ pressed' = "none"
        /\ ScriptRun(collector, v, frother, ph, luproset, mn_grade, zn_feed_grade)
        /\ UNCHANGED <<collector, frother, ph, luproset, mn_grade, zn_feed_grade, pc>>

SetFrother ==
    \E v \in (FROTHER_RANGE \cap FrotherTyped) \ {frother} :
        /\ frother' = v
        /\ pressed' = "none"
        /\ ScriptRun(collector, air_rate, v, ph, luproset, mn_grade, zn_feed_grade)
        /\ UNCHANGED <<collector, air_rate, ph, luproset, mn_grade, zn_feed_grade, pc>>

SetPh ==
    \E v \in (PH_RANGE \cap PhTyped) \ {ph} :
        /\ ph' = v
        /\ pressed' = "none"
        /\ ScriptRun(collector, air_rate, frother, v, luproset, mn_grade, zn_feed_grade)
        /\ UNCHANGED <<collector, air_rate, frother, luproset, mn_grade, zn_feed_grade, pc>>

SetLuproset ==
    \E v \in (LUPROSET_RANGE \cap LuprosetTyped) \ {luproset} :
        /\ luproset' = v
        /\ pressed' = "none"
        /\ ScriptRun(collector, air_rate, frother, ph, v, mn_grade, zn_feed_grade)
        /\ UNCHANGED <<collector, air_rate, frother, ph, mn_grade, zn_feed_grade, pc>>

\* The "Reset All Parameters" button: st.rerun() and nothing else.
ResetAllParameters ==
    /\ pressed' = "reset"
    /\ ScriptRun(collector, air_rate, frother, ph, luproset, mn_grade, zn_feed_grade)
    /\ UNCHANGED <<params, pc>>

Next ==
    \/ NewScenario
    \/ SetMnGrade
    \/ SetCollector
    \/ SetAirRate
    \/ SetFrother
    \/ SetPh
    \/ SetLuproset
    \/ ResetAllParameters

Spec == Init /\ [][Next]_vars

---------------------------------------------------------------------------
\* calculate_performance and calculate_targets called on arbitrary arguments,
\* inside and outside the ranges the widgets enforce.

\* How far below 0 and above 100 the luproset argument goes.
LuprosetMargin == 10

CollectorArgs == {100, 1100, 1500}

AirRateArgs == {450, 1500}

FrotherArgs == {-5, 50}

PhArgs == {80, 97, 125}

LuprosetArgs == (0 - LuprosetMargin)..(100 + LuprosetMargin)

MnGradeArgs == {-20, 8, 100}

ZnFeedGradeArgs == {-300, 20, 93, 150}

InitEval ==
    /\ collector \in CollectorArgs
    /\ air_rate \in AirRateArgs
    /\ frother \in FrotherArgs
    /\ ph \in PhArgs
    /\ luproset \in LuprosetArgs
    /\ mn_grade \in MnGradeArgs
    /\ zn_feed_grade \in ZnFeedGradeArgs
    /\ recovery = None /\ grade = None /\ carbon = None
    /\ target_recovery = None /\ target_grade = None
    /\ lookup_table = None /\ value = None /\ result = None
    /\ pressed = "none"
    /\ pc = "call"

\* The two calls of the script, made with the arguments drawn.
Evaluate ==
    /\ pc = "call"
    /\ ScriptRun(collector, air_rate, frother, ph, luproset, mn_grade, zn_feed_grade)
    /\ pc' = "returned"
    /\ UNCHANGED <<params, pressed>>

NextEval == Evaluate

SpecEval == InitEval /\ [][NextEval]_vars

---------------------------------------------------------------------------
\* interpolate_lookup called on arbitrary tables and query values.

\* The generated tables take their keys among 10, 15, 30, 55, ...
MaxKeyIdx == 3

\* How far around each key the query values go.
QuerySpread == 3

GenKeys == {5 * i * i + 10 : i \in 0..MaxKeyIdx}

GenVectors == {[recovery |-> x, grade |-> 60000 - (x \div 2)] : x \in {-2500, 0, 47300}}

GeneratedTables == UNION {[K -> GenVectors] : K \in (SUBSET GenKeys) \ {{}}}

Tables ==
    {COLLECTOR_LOOKUP, AIR_RATE_LOOKUP, FROTHER_LOOKUP, PH_LOOKUP} \cup GeneratedTables

QueryValues(table) ==
    {k + d : k \in DOMAIN table, d \in (0 - QuerySpread)..QuerySpread}
        \cup {(a + b) \div 2 : a \in DOMAIN table, b \in DOMAIN table}

InitInterp ==
    /\ SessionDefaults
    /\ recovery = None /\ grade = None /\ carbon = None
    /\ target_recovery = None /\ target_grade = None
    /\ pressed = "none"
    /\ lookup_table \in Tables
    /\ value \in QueryValues(lookup_table)
    /\ result = None
    /\ pc = "call"

\* The call returns a result or raises at the first use of lower_key.
Interpolate ==
    /\ pc = "call"
    /\ result' = interpolate_lookup(value, lookup_table)
    /\ pc' = IF result' = UnboundLocalError THEN "raised" ELSE "returned"
    /\ UNCHANGED <<params, outputs, pressed, lookup_table, value>>

NextInterp == Interpolate

SpecInterp == InitInterp /\ [][NextInterp]_vars

---------------------------------------------------------------------------
\* Properties

\* The four lookups of the current arguments.
CollectorMetrics == interpolate_lookup(collector, COLLECTOR_LOOKUP)

AirMetrics == interpolate_lookup(air_rate, AIR_RATE_LOOKUP)

FrotherMetrics == interpolate_lookup(frother, FROTHER_LOOKUP)

PhMetrics == interpolate_lookup(ph, PH_LOOKUP)

RawRecovery ==
    raw_recovery(CollectorMetrics, AirMetrics, FrotherMetrics, PhMetrics,
                 luproset, zn_feed_grade)

RawGrade ==
    raw_grade(CollectorMetrics, AirMetrics, FrotherMetrics, PhMetrics,
              mn_grade, zn_feed_grade)

\* C1: whatever the seven arguments, in or out of their documented ranges,
\* the returned triple has 0 <= recovery <= 100, 20 <= grade <= 65 and
\* carbon >= 0.5.
C1_OutputClamping ==
    pc = "returned" =>
        /\ 0 <= recovery /\ recovery <= 100000
        /\ 20000 <= grade /\ grade <= 65000
        /\ carbon >= 500

\* A call with out-of-range feed grades where all three constraints act.
C1_Witness ==
    /\ pc = "returned"
    /\ zn_feed_grade < 20 /\ mn_grade > 10
    /\ RawRecovery < 0 /\ recovery = 0
    /\ RawGrade < 20000 /\ grade = 20000
    /\ raw_carbon(luproset) < 500 /\ carbon = 500

\* The results at dosage d of the call that differs from the current one in
\* luproset only.
AtDosage(cm, am, fm, pm, d) ==
    performance_from(cm, am, fm, pm, d, mn_grade, zn_feed_grade)

StrictlyLessCarbon(cm, am, fm, pm) ==
    \A d2 \in LUPROSET_RANGE :
        d2 > luproset =>
            /\ AtDosage(cm, am, fm, pm, d2).carbon < carbon
            /\ AtDosage(cm, am, fm, pm, d2).recovery <= recovery

LessCarbonAboveFloor(cm, am, fm, pm) ==
    \A d2 \in LUPROSET_RANGE :
        d2 > luproset =>
            /\ AtDosage(cm, am, fm, pm, d2).carbon <= carbon
            /\ carbon > 500 => AtDosage(cm, am, fm, pm, d2).carbon < carbon
            /\ AtDosage(cm, am, fm, pm, d2).recovery <= recovery

\* C2 as stated: the other six arguments fixed, for dosages d1 < d2 in 0..100
\* carbon(d2) < carbon(d1) strictly and recovery(d2) <= recovery(d1).
C2_StrictCarbonDecrease ==
    (pc = "returned" /\ luproset \in LUPROSET_RANGE) =>
        StrictlyLessCarbon(CollectorMetrics, AirMetrics, FrotherMetrics, PhMetrics)

\* C2 amended: the other six arguments fixed, for dosages d1 < d2 in 0..100
\* carbon(d2) <= carbon(d1), strictly less whenever carbon(d1) is above the
\* 0.5 floor, and recovery(d2) <= recovery(d1).
C2_DepressantMonotonicity ==
    (pc = "returned" /\ luproset \in LUPROSET_RANGE) =>
        LessCarbonAboveFloor(CollectorMetrics, AirMetrics, FrotherMetrics, PhMetrics)

\* A call at dosage 60, above the floor, with in-range arguments: dosage 65
\* gives strictly less carbon and strictly less recovery, dosage 80 sits on
\* the floor.
C2_Witness ==
    /\ pc = "returned"
    /\ luproset = 60 /\ carbon > 500
    /\ zn_feed_grade = 93 /\ mn_grade = 8 /\ ph = 97
    /\ 0 < recovery /\ recovery < 100000
    /\ AtDosage(CollectorMetrics, AirMetrics, FrotherMetrics, PhMetrics, 65).carbon
           \in 501..(carbon - 1)
    /\ AtDosage(CollectorMetrics, AirMetrics, FrotherMetrics, PhMetrics, 65).recovery
           < recovery
    /\ AtDosage(CollectorMetrics, AirMetrics, FrotherMetrics, PhMetrics, 80).carbon = 500

\* The weighted sum of the current call and its four terms.
RecoveryTerms == recovery_terms(CollectorMetrics, AirMetrics, FrotherMetrics)

TermSet == {RecoveryTerms[i] : i \in 1..4}

\* C3: the four weights of the base-recovery sum add up to 1.0, so the sum
\* lies between the smallest and the largest of the four terms.
C3_ConvexRecoveryWeights ==
    pc = "returned" =>
        /\ RECOVERY_WEIGHTS[1] + RECOVERY_WEIGHTS[2] + RECOVERY_WEIGHTS[3]
               + RECOVERY_WEIGHTS[4] = 1000
        /\ SetMin(TermSet) <= weighted_recovery(RecoveryTerms)
        /\ weighted_recovery(RecoveryTerms) <= SetMax(TermSet)

\* C4: the feed-grade recovery factor is 0.6 at 2.0 % Zn and 1.0 at 15.0 % Zn
\* and never exceeds 1.0 for a feed grade in [2.0, 15.0].
C4_FeedGradeFactorCeiling ==
    pc = "returned" =>
        /\ grade_recovery_factor(20) = 600
        /\ grade_recovery_factor(150) = 1000
        /\ zn_feed_grade \in 20..150 => grade_recovery_factor(zn_feed_grade) <= 1000

\* C8: target_recovery is 76.0 whatever mn is; target_grade is
\* 0.80 * min(65, 60 - 3 * mn) and at most 65; and between two manganese
\* grades below the 65 ceiling, the ceiling and the grade that
\* calculate_performance computes move by the same amount.
C8_TargetZoneConsistency ==
    pc = "returned" =>
        /\ target_recovery = 76000
        /\ target_grade <= 65000
        /\ 5 * target_grade = 4 * Min(65000, 60000 - 300 * mn_grade)
        /\ \A mn2 \in MnGradeArgs \cup MN_GRADE_RANGE :
              (5 * target_grade < 4 * 65000
                 /\ 5 * calculate_targets(mn2).target_grade < 4 * 65000) =>
                  4 * (raw_grade(CollectorMetrics, AirMetrics, FrotherMetrics,
                                 PhMetrics, mn2, zn_feed_grade) - RawGrade)
                    = 5 * (calculate_targets(mn2).target_grade - target_grade)

\* A call with 0.8 % Mn: the ceiling is 57.6 and the target grade 46.08.
C8_Witness ==
    /\ pc = "returned"
    /\ mn_grade = 8
    /\ target_recovery = 76000
    /\ target_grade = 46080

\* The keys of the current table in ascending order.
Keys == sorted(DOMAIN lookup_table)

\* v lies between a and b, whichever is larger.
Between(v, a, b) == Min(a, b) <= v /\ v <= Max(a, b)

\* Entries i and j bracket the query: adjacent keys around it, or the
\* boundary entry alone when the query is outside the key range.
Brackets(i, j) ==
    \/ j = i + 1 /\ Keys[i] <= value /\ value <= Keys[j]
    \/ j = i /\ i = 1 /\ value <= Keys[1]
    \/ j = i /\ i = Len(Keys) /\ value >= Keys[i]

\* C5: every metric of the result lies between its values at the two
\* adjacent keys that bracket the query (at the boundary entry for a query
\* outside the key range), hence between its minimum and maximum over the
\* table.
C5_InterpolationBounded ==
    pc = "returned" =>
        /\ \E i \in 1..Len(Keys), j \in 1..Len(Keys) :
              /\ Brackets(i, j)
              /\ \A param \in DOMAIN lookup_table[Keys[i]] :
                    Between(result[param], lookup_table[Keys[i]][param],
                            lookup_table[Keys[j]][param])
        /\ \A param \in DOMAIN result :
              /\ SetMin({lookup_table[k][param] : k \in DOMAIN lookup_table})
                     <= result[param]
              /\ result[param]
                     <= SetMax({lookup_table[k][param] : k \in DOMAIN lookup_table})

\* A query strictly between two keys whose result lies strictly between the
\* two entries.
C5_Witness ==
    /\ pc = "returned"
    /\ value \notin DOMAIN lookup_table
    /\ \E i \in 1..(Len(Keys) - 1) :
          /\ Keys[i] < value /\ value < Keys[i + 1]
          /\ lookup_table[Keys[i]].recovery < result.recovery
          /\ result.recovery < lookup_table[Keys[i + 1]].recovery

\* C6: a query at a key of the table, first, last or interior, returns the
\* EffectVector stored at that key.
C6_ExactAtKeys ==
    (pc = "returned" /\ value \in DOMAIN lookup_table) =>
        result = lookup_table[value]

\* A query at an interior key whose neighbours hold other vectors.
C6_Witness ==
    /\ pc = "returned"
    /\ \E i \in 2..(Len(Keys) - 1) :
          /\ value = Keys[i]
          /\ lookup_table[Keys[i - 1]] # lookup_table[value]
          /\ lookup_table[Keys[i + 1]] # lookup_table[value]
          /\ result = lookup_table[value]

\* C7: the call never raises; at or below the smallest key it returns the
\* first entry, at or above the largest key the last entry (a single-key
\* table returns its only entry), and otherwise the loop finds a pair of
\* adjacent keys around the query.
C7_NoErrorFlatExtrapolation ==
    /\ pc # "raised"
    /\ pc = "returned" =>
          /\ DOMAIN result = DOMAIN lookup_table[Keys[1]]
          /\ value <= Keys[1] => result = lookup_table[Keys[1]]
          /\ value >= Keys[Len(Keys)] => result = lookup_table[Keys[Len(Keys)]]
          /\ Len(Keys) = 1 => result = lookup_table[Keys[1]]
          /\ (Keys[1] < value /\ value < Keys[Len(Keys)]) =>
                 /\ surrounding_keys(value, Keys) \in 1..(Len(Keys) - 1)
                 /\ Keys[surrounding_keys(value, Keys)] <= value
                 /\ value <= Keys[surrounding_keys(value, Keys) + 1]

\* A query above the only key of a single-key table.
C7_Witness ==
    /\ pc = "returned"
    /\ Len(Keys) = 1
    /\ value > Keys[1]
    /\ result = lookup_table[Keys[1]]

\* C9: in the script run that follows a press of "Reset All Parameters",
\* collector, air_rate, frother, ph and luproset hold their initial values.
C9_ResetRestoresDefaults ==
    pressed = "reset" =>
        /\ collector = 200
        /\ air_rate = 500
        /\ frother = 0
        /\ ph = 85
        /\ luproset = 0

\* C10: right after "New Scenario" the controls are at their minimums,
\* zn_feed_grade is in [8.0, 13.0] and mn_grade in [0.2, 1.0]; and in every
\* session state mn_grade is in [0.1, 1.0] and zn_feed_grade in [8.0, 13.0].
C10_ScenarioRanges ==
    /\ pressed = "new_scenario" =>
          /\ collector = 200 /\ air_rate = 500 /\ frother = 0
          /\ ph = 85 /\ luproset = 0
          /\ zn_feed_grade \in 80..130
          /\ mn_grade \in 2..10
    /\ mn_grade \in 1..10
    /\ zn_feed_grade \in 80..130

\* A scenario drawn at the top of the zinc range and the bottom of the
\* manganese range.
C10_Witness ==
    /\ pressed = "new_scenario"
    /\ zn_feed_grade = 130
    /\ mn_grade = 2
    /\ collector = 200 /\ luproset = 0

===========================================================================
